---- MODULE Spec2Model ----
(***************************************************************************)
(* Personal expense tracker (src/main.py): three FastAPI handlers over one *)
(* SQLite table `expenses`, reached through a module-level connection and  *)
(* cursor.                                                                  *)
(***************************************************************************)
EXTENDS Integers, Sequences, FiniteSets, TLC

VARIABLES
  disk,       \* the committed content of expenses.db: [rows, seq]
  conn,       \* what the shared connection sees: [rows, seq, inTx]
  cursor,     \* the shared cursor: rows of the last statement not yet fetched
  clock,      \* the server's local day (index of DayAt)
  pysum,      \* the interpreter's float sum: "naive" (< 3.12) or "neumaier"
  last,       \* what the latest step answered: the request and its response
  assigned,   \* the ids given by the INSERTs, in order
  created,    \* id -> the row as it was inserted
  removed,    \* the ids of inserted rows that a DELETE has named since
  pc,         \* per worker thread: the call its handler is in, or "idle"
  raced,      \* per worker thread: another thread was in a call during this one
  seen        \* per worker thread: the tables the connection showed during its GET /

vars == <<disk, conn, cursor, clock, pysum, last, assigned, created, removed,
          pc, raced, seen>>

(***************************************************************************)
(* Bounds of the model.                                                    *)
(***************************************************************************)
MaxCreates == 2     \* INSERTs per behaviour
MaxClock == 1       \* days the clock may advance
FracBits == 2       \* binary places kept after the point of an amount
MaxThreadCreates == 2   \* INSERTs while threads interleave

(***************************************************************************)
(* Natural numbers of any size, as Python's int and the digits of a float  *)
(* literal need them: the sequence of decimal digits, most significant     *)
(* first, no leading zero; zero is the empty sequence.                     *)
(***************************************************************************)
\* the leading zeros dropped
Canon(ds) ==
  IF \A i \in 1..Len(ds) : ds[i] = 0 THEN <<>>
  ELSE SubSeq(ds, CHOOSE i \in 1..Len(ds) :
                    ds[i] # 0 /\ \A j \in 1..(i - 1) : ds[j] = 0,
              Len(ds))

RECURSIVE ToDec(_)
\* the digits of the natural n
ToDec(n) == IF n = 0 THEN <<>> ELSE ToDec(n \div 10) \o <<n % 10>>

RECURSIVE DecVal(_, _)
\* the natural with digits ds, for at most nine of them
DecVal(acc, ds) == IF ds = <<>> THEN acc ELSE DecVal(10 * acc + Head(ds), Tail(ds))

RECURSIVE DecLex(_, _)
\* two digit sequences of one length, compared from the left: -1, 0, 1
DecLex(a, b) ==
  IF a = <<>> THEN 0
  ELSE IF Head(a) < Head(b) THEN -1
  ELSE IF Head(a) > Head(b) THEN 1
  ELSE DecLex(Tail(a), Tail(b))

\* a against b as numbers: -1, 0, 1
DecCmp(a, b) ==
  IF Len(a) < Len(b) THEN -1
  ELSE IF Len(a) > Len(b) THEN 1
  ELSE DecLex(a, b)

\* ds with zeros put in front, up to n digits
Pad(ds, n) == [i \in 1..n |-> IF i <= n - Len(ds) THEN 0 ELSE ds[i - (n - Len(ds))]]

RECURSIVE SubDigits(_, _, _, _)
SubDigits(a, b, i, borrow) ==
  IF i = 0 THEN <<>>
  ELSE LET d == a[i] - b[i] - borrow
       IN SubDigits(a, b, i - 1, IF d < 0 THEN 1 ELSE 0)
            \o <<IF d < 0 THEN d + 10 ELSE d>>

\* a - b, for a >= b
DecSub(a, b) == Canon(SubDigits(a, Pad(b, Len(a)), Len(a), 0))

RECURSIVE MulDigits(_, _, _, _)
MulDigits(a, k, i, carry) ==
  IF i = 0 THEN ToDec(carry)
  ELSE LET p == a[i] * k + carry
       IN MulDigits(a, k, i - 1, p \div 10) \o <<p % 10>>

\* a * k, for a natural k below a million
DecMul(a, k) == Canon(MulDigits(a, k, Len(a), 0))

(***************************************************************************)
(* amount REAL: IEEE-754 binary64, and what stands in its place.  A finite *)
(* double of the model is [k |-> "fin", h, l] and stands for               *)
(* h * 2^53 + l / 2^FracBits, with l small against 2^52, so that both the  *)
(* exact range (h = 0) and the range where neighbouring doubles are 2, 4,  *)
(* ... apart (h # 0) are present.  The other values a column or a Python   *)
(* variable holds: "inf" (h its sign), "nan", and "null" (SQL NULL, None). *)
(***************************************************************************)
RECURSIVE Pow2(_)
Pow2(n) == IF n = 0 THEN 1 ELSE 2 * Pow2(n - 1)

\* how many l make 1
Unit == Pow2(FracBits)

F(h, l) == [k |-> "fin", h |-> h, l |-> l]

Zero == F(0, 0)

Inf(neg) == [k |-> "inf", h |-> IF neg THEN -1 ELSE 1, l |-> 0]

NaN == [k |-> "nan", h |-> 0, l |-> 0]

Null == [k |-> "null", h |-> 0, l |-> 0]

Neg(x) == [k |-> x.k, h |-> 0 - x.h, l |-> 0 - x.l]

IsNeg(x) == x.h < 0 \/ (x.h = 0 /\ x.l < 0)

Fabs(x) == IF IsNeg(x) THEN Neg(x) ELSE x

\* x >= y as C compares doubles: false as soon as one is a NaN
Ge(x, y) ==
  /\ x.k # "nan"
  /\ y.k # "nan"
  /\ IF x.k = "inf" THEN x.h > 0 \/ (y.k = "inf" /\ y.h < 0)
     ELSE IF y.k = "inf" THEN y.h < 0
     ELSE x.h > y.h \/ (x.h = y.h /\ x.l >= y.l)

RECURSIVE P2(_)
\* the largest power of two not above h, h >= 1
P2(h) == IF h <= 1 THEN 1 ELSE 2 * P2(h \div 2)

\* the gap between neighbouring doubles around h * 2^53 + l / Unit, h >= 1,
\* counted in l
Ulp(h, l) == (IF l < 0 /\ h = P2(h) THEN P2(h) ELSE 2 * P2(h)) * Unit

\* round-to-nearest, ties-to-even, of the real h * 2^53 + l / Unit, h >= 1
RoundPos(h, l) ==
  LET u == Ulp(h, l)
      q == l \div u
      r == l - q * u
      up == \/ 2 * r > u
            \/ (2 * r = u /\ q % 2 = 1)
  IN F(h, IF up THEN (q + 1) * u ELSE q * u)

\* the double nearest to the real h * 2^53 + l / Unit
Round(h, l) ==
  IF h = 0 THEN F(0, l)
  ELSE IF h > 0 THEN RoundPos(h, l)
  ELSE Neg(RoundPos(0 - h, 0 - l))

\* x + y and x - y in double arithmetic
FAdd(x, y) ==
  IF x.k = "nan" \/ y.k = "nan" THEN NaN
  ELSE IF x.k = "inf" /\ y.k = "inf" THEN (IF x.h = y.h THEN x ELSE NaN)
  ELSE IF x.k = "inf" THEN x
  ELSE IF y.k = "inf" THEN y
  ELSE Round(x.h + y.h, x.l + y.l)

FSub(x, y) == FAdd(x, Neg(y))

\* the double of the natural n
FromNat(n) == F(0, n * Unit)

\* 2^53 in decimal
TwoTo53 == <<9, 0, 0, 7, 1, 9, 9, 2, 5, 4, 7, 4, 0, 9, 9, 2>>

\* no double of the model stands for this number
Unmodelled(M) == CHOOSE x \in {} : x = M

\* 2^53, counted in 1 / Unit
HighUnit == DecMul(TwoTo53, Unit)

RECURSIVE Nearest(_, _)
\* the double nearest to the natural M / Unit: the h for which M lies within
\* eight digits of h * 2^53 * Unit, then rounded
Nearest(M, h) ==
  LET at == DecMul(HighUnit, h)
      above == DecCmp(M, at) >= 0
      d == IF above THEN DecSub(M, at) ELSE DecSub(at, M)
  IN IF Len(d) <= 8
     THEN Round(h, IF above THEN DecVal(0, d) ELSE 0 - DecVal(0, d))
     ELSE IF ~above \/ Len(M) > Len(HighUnit) + 2
     THEN Unmodelled(M)
     ELSE Nearest(M, h + 1)

\* the decimal D * 10^scale is a whole number of 1 / Unit
IsWhole(D, scale) ==
  \/ scale >= 0
  \/ LET X == DecMul(D, Unit)
     IN /\ Len(X) > 0 - scale
        /\ \A i \in (Len(X) + scale + 1)..Len(X) : X[i] = 0

\* the double nearest to the decimal D * 10^scale, D without leading zeros:
\* infinite from 10^309 on, zero below 10^-324
DecimalToDouble(D, scale) ==
  LET X == DecMul(D, Unit)
  IN IF D = <<>> THEN Zero
     ELSE IF Len(D) - 1 + scale >= 309 THEN Inf(FALSE)
     ELSE IF Len(D) + scale <= -324 THEN Zero
     ELSE IF ~IsWhole(D, scale) THEN Unmodelled(D)
     ELSE IF scale >= 0 THEN Nearest(X \o [i \in 1..scale |-> 0], 0)
     ELSE Nearest(SubSeq(X, 1, Len(X) + scale), 0)

(***************************************************************************)
(* date TEXT: datetime.now().strftime("%Y-%m-%d"), compared by SQLite as   *)
(* TEXT, byte by byte.                                                     *)
(***************************************************************************)
\* the local date i days after 2024-12-31, as <<year, month, day>>
DayAt(i) == IF i = 0 THEN <<2024, 12, 31>> ELSE <<2025, 1, i>>

Digit(d) == 48 + d

Dash == 45

\* strftime("%Y-%m-%d"): ten bytes
Strftime(ymd) ==
  LET y == ymd[1]
      m == ymd[2]
      d == ymd[3]
  IN << Digit(y \div 1000), Digit((y \div 100) % 10), Digit((y \div 10) % 10),
        Digit(y % 10), Dash, Digit(m \div 10), Digit(m % 10), Dash,
        Digit(d \div 10), Digit(d % 10) >>

RECURSIVE TextCmp(_, _)
\* SQLite's BINARY collation: -1, 0, 1 as memcmp, then the shorter first
TextCmp(a, b) ==
  IF a = b THEN 0
  ELSE IF a = <<>> THEN -1
  ELSE IF b = <<>> THEN 1
  ELSE IF Head(a) < Head(b) THEN -1
  ELSE IF Head(a) > Head(b) THEN 1
  ELSE TextCmp(Tail(a), Tail(b))

(***************************************************************************)
(* The table expenses and the three SQL statements.                        *)
(***************************************************************************)
\* one row of expenses, as INSERT builds it
Row(id, title, amount, category, date) ==
  [id |-> id, title |-> title, amount |-> amount, category |-> category,
   date |-> date]

Ids(rows) == {e.id : e \in rows}

RECURSIVE MaxOf(_)
MaxOf(S) ==
  IF S = {} THEN 0
  ELSE LET x == CHOOSE y \in S : TRUE
           m == MaxOf(S \ {x})
       IN IF x > m THEN x ELSE m

\* INTEGER PRIMARY KEY without AUTOINCREMENT: one past the largest rowid now stored
NextRowidOfStoredRows(c) == MaxOf(Ids(c.rows)) + 1

\* id INTEGER PRIMARY KEY AUTOINCREMENT: one past the largest rowid the table
\* ever held (sqlite_sequence), whatever has been deleted since
NextRowid(c) ==
  (IF c.seq > MaxOf(Ids(c.rows)) THEN c.seq ELSE MaxOf(Ids(c.rows))) + 1

\* ORDER BY date DESC over a scan in rowid order: a comes before b
Before(a, b) ==
  LET c == TextCmp(a.date, b.date)
  IN c = 1 \/ (c = 0 /\ a.id < b.id)

RECURSIVE ListAll(_)
\* SELECT * FROM expenses ORDER BY date DESC
ListAll(rows) ==
  IF rows = {} THEN <<>>
  ELSE LET first == CHOOSE a \in rows : \A b \in rows \ {a} : Before(a, b)
       IN <<first>> \o ListAll(rows \ {first})

\* a Python float bound to a parameter: SQLite stores a NaN as NULL
BindFloat(x) == IF x.k = "nan" THEN Null ELSE x

\* cursor.execute("INSERT INTO expenses ..."); sqlite3 opens the transaction
ExecInsert(c, title, amount, category, date) ==
  LET id == NextRowid(c)
  IN [rows |-> c.rows \cup {Row(id, title, BindFloat(amount), category, date)},
      seq |-> id, inTx |-> TRUE]

\* a Python int: its sign and its decimal digits
PyInt(neg, digits) == [neg |-> neg, digits |-> digits]

\* the rowid i as a Python int
IdInt(i) == PyInt(FALSE, ToDec(i))

\* 2^63 - 1 and 2^63 in decimal
Int64Max == <<9, 2, 2, 3, 3, 7, 2, 0, 3, 6, 8, 5, 4, 7, 7, 5, 8, 0, 7>>

Int64MinAbs == <<9, 2, 2, 3, 3, 7, 2, 0, 3, 6, 8, 5, 4, 7, 7, 5, 8, 0, 8>>

\* a Python int bound to a parameter fits SQLite's INTEGER; OverflowError if not
FitsInt64(n) ==
  IF n.neg THEN DecCmp(n.digits, Int64MinAbs) <= 0
  ELSE DecCmp(n.digits, Int64Max) <= 0

\* DELETE that removes nothing (the statement run against another table)
ExecDeleteNothing(c, id) ==
  [rows |-> c.rows, seq |-> c.seq, inTx |-> TRUE]

\* cursor.execute("DELETE FROM expenses WHERE id = ?")
ExecDelete(c, id) ==
  [rows |-> {e \in c.rows : IdInt(e.id) # id}, seq |-> c.seq, inTx |-> TRUE]

\* cursor.execute raising after sqlite3 has opened the transaction
Begun(c) == [rows |-> c.rows, seq |-> c.seq, inTx |-> TRUE]

\* conn.commit(): the connection's transaction becomes the file's content
Commit(c) == [rows |-> c.rows, seq |-> c.seq]

\* the connection once its transaction has ended
Ended(c) == [rows |-> c.rows, seq |-> c.seq, inTx |-> FALSE]

(***************************************************************************)
(* total = sum(e[2] for e in expenses)                                     *)
(***************************************************************************)
RECURSIVE NaiveSum(_, _)
\* CPython before 3.12: f_result += x, left to right
NaiveSum(acc, xs) ==
  IF xs = <<>> THEN acc ELSE NaiveSum(FAdd(acc, Head(xs)), Tail(xs))

RECURSIVE NeumaierSum(_, _, _)
\* CPython 3.12 and later: compensated summation, the compensation added at
\* the end when it is finite and not zero
NeumaierSum(acc, c, xs) ==
  IF xs = <<>> THEN (IF c.k = "fin" /\ c # Zero THEN FAdd(acc, c) ELSE acc)
  ELSE LET x == Head(xs)
           t == FAdd(acc, x)
           d == IF Ge(Fabs(acc), Fabs(x)) THEN FAdd(FSub(acc, t), x)
                ELSE FAdd(FSub(x, t), acc)
       IN NeumaierSum(t, FAdd(c, d), Tail(xs))

Amounts(expenses) == [i \in 1..Len(expenses) |-> expenses[i].amount]

\* sum(...) raises TypeError: an amount is None
SumRaises(expenses) == \E i \in 1..Len(expenses) : expenses[i].amount = Null

\* sum(e[2] for e in expenses), as the interpreter `how` computes it
PySum(how, expenses) ==
  IF how = "naive" THEN NaiveSum(Zero, Amounts(expenses))
  ELSE NeumaierSum(Zero, Zero, Amounts(expenses))

(***************************************************************************)
(* Request parsing: Form(...) fields and the path parameter.  The text of  *)
(* amount and of the path segment is a sequence of characters; FastAPI     *)
(* converts it with pydantic: read as a literal, and read again after a    *)
(* clean-up (underscores, and for an int leading zeros and a zero          *)
(* fraction) when that fails.                                              *)
(***************************************************************************)
\* the white space str.trim() takes off: space, tab, line feed, form feed,
\* carriage return and, written as the characters themselves, U+000B, U+0085,
\* U+00A0 and U+1680; the white space from U+2000 on cannot stand in a string
\* here
IsSpace(ch) ==
  ch \in {" ", "\t", "\n", "\f", "\r", "", "", " ", " "}

\* str.trim(): from the first character that is no white space to the last
Trim(s) ==
  IF \A i \in 1..Len(s) : IsSpace(s[i]) THEN <<>>
  ELSE SubSeq(s,
              CHOOSE i \in 1..Len(s) :
                ~IsSpace(s[i]) /\ \A j \in 1..(i - 1) : IsSpace(s[j]),
              CHOOSE i \in 1..Len(s) :
                ~IsSpace(s[i]) /\ \A j \in (i + 1)..Len(s) : IsSpace(s[j]))

\* underscores may be taken out: some, none first or last, no two in a row
CanStrip(s) ==
  /\ s # <<>>
  /\ s[1] # "_"
  /\ s[Len(s)] # "_"
  /\ \E i \in 1..Len(s) : s[i] = "_"
  /\ ~\E i \in 1..(Len(s) - 1) : s[i] = "_" /\ s[i + 1] = "_"

StripUnderscores(s) ==
  LET Kept(ch) == ch # "_" IN SelectSeq(s, Kept)

Negative(s) == s # <<>> /\ Head(s) = "-"

\* the literal without its sign
Unsigned(s) == IF s # <<>> /\ Head(s) \in {"+", "-"} THEN Tail(s) ELSE s

IsDigit(ch) == ch \in {"0", "1", "2", "3", "4", "5", "6", "7", "8", "9"}

DigitVal(ch) ==
  CASE ch = "0" -> 0 [] ch = "1" -> 1 [] ch = "2" -> 2 [] ch = "3" -> 3
    [] ch = "4" -> 4 [] ch = "5" -> 5 [] ch = "6" -> 6 [] ch = "7" -> 7
    [] ch = "8" -> 8 [] ch = "9" -> 9

AllDigits(s) == \A i \in 1..Len(s) : IsDigit(s[i])

\* the number a run of digit characters writes
Digits(s) == Canon([i \in 1..Len(s) |-> DigitVal(s[i])])

\* the first position from i on of a character of C in s, 0 when there is none
Find(s, C, i) ==
  IF \A j \in i..Len(s) : s[j] \notin C THEN 0
  ELSE CHOOSE j \in i..Len(s) : s[j] \in C /\ \A k \in i..(j - 1) : s[k] \notin C

\* s up to the first character of C, and s after it
UpTo(s, C) ==
  LET p == Find(s, C, 1) IN IF p = 0 THEN s ELSE SubSeq(s, 1, p - 1)

After(s, C) ==
  LET p == Find(s, C, 1) IN IF p = 0 THEN <<>> ELSE SubSeq(s, p + 1, Len(s))

\* the first position from i on of a character outside C in s, 0 when none
FindOther(s, C, i) ==
  IF \A j \in i..Len(s) : s[j] \in C THEN 0
  ELSE CHOOSE j \in i..Len(s) : s[j] \notin C /\ \A k \in i..(j - 1) : s[k] \in C

Lower(ch) ==
  CASE ch = "A" -> "a" [] ch = "F" -> "f" [] ch = "I" -> "i" [] ch = "N" -> "n"
    [] ch = "T" -> "t" [] ch = "Y" -> "y" [] OTHER -> ch

Lowered(s) == [i \in 1..Len(s) |-> Lower(s[i])]

IsInfinity(b) ==
  \/ Len(b) = 3 /\ Lowered(b) = <<"i", "n", "f">>
  \/ Len(b) = 8 /\ Lowered(b) = <<"i", "n", "f", "i", "n", "i", "t", "y">>

IsNaN(b) == Len(b) = 3 /\ Lowered(b) = <<"n", "a", "n">>

\* digits with an optional point and an optional exponent; a digit before or
\* after the point, and a digit in the exponent
IsDecimal(b) ==
  LET e == Find(b, {"e", "E"}, 1)
      m == IF e = 0 THEN b ELSE SubSeq(b, 1, e - 1)
      p == Find(m, {"."}, 1)
  IN /\ \A i \in 1..Len(m) : i = p \/ IsDigit(m[i])
     /\ Len(m) > (IF p = 0 THEN 0 ELSE 1)
     /\ e # 0 => LET x == Unsigned(SubSeq(b, e + 1, Len(b)))
                 IN x # <<>> /\ AllDigits(x)

\* a float literal: a sign, then a decimal, inf, infinity or nan
IsFloatLiteral(t) ==
  LET b == Unsigned(t) IN IsDecimal(b) \/ IsInfinity(b) \/ IsNaN(b)

\* the fields of the form on the page
Fields == {"title", "amount", "category"}

\* a form body with the three fields, any of them perhaps empty
Form(title, amount, category) ==
  [title |-> title, amount |-> amount, category |-> category, sent |-> Fields]

\* the form body without `field`
Without(form, field) == [form EXCEPT !.sent = @ \ {field}]

\* the amounts 4.50 and 2^53, next to which 4.50 counts as 4; the category of
\* the second left empty, which the form takes
FewForms ==
  { Form("Coffee", <<"4", ".", "5", "0">>, "Food"),
    Form("Rent", <<"9", "0", "0", "7", "1", "9", "9", "2", "5", "4", "7", "4",
                   "0", "9", "9", "2">>, "") }

\* and 4.50 written "+45_0.0e-2", and nan
ValidForms ==
  FewForms \cup
  { Form("Coffee", <<"+", "4", "5", "_", "0", ".", "0", "e", "-", "2">>, "Food"),
    Form("Coffee", <<"n", "a", "n">>, "Food") }

\* a field not sent; the amount "abc", and " +45_0.0e-2", whose leading space
\* is still there once the underscore is out
RejectedForms ==
  { Without(Form("", <<"4", ".", "5", "0">>, "Food"), "title"),
    Without(Form("Coffee", <<>>, "Food"), "amount"),
    Without(Form("Coffee", <<"4", ".", "5", "0">>, ""), "category"),
    Form("Coffee", <<"a", "b", "c">>, "Food"),
    Form("Coffee", <<" ", "+", "4", "5", "_", "0", ".", "0", "e", "-", "2">>, "Food") }

Forms == ValidForms \cup RejectedForms

\* the amount texts submitted
AmountsTried == {form.amount : form \in Forms}

\* the text the float is read from: the trimmed text when that is a literal,
\* else the text as submitted, untrimmed, without its underscores
FloatText(s) ==
  LET t == Trim(s)
  IN IF IsFloatLiteral(t) \/ ~CanStrip(s) THEN t ELSE StripUnderscores(s)

\* the text reads as a float
ReadsAsFloat(s) == IsFloatLiteral(FloatText(s))

\* the exponent written by x, cut off at a million either way
ExponentOf(x) ==
  LET d == Digits(Unsigned(x))
      v == IF Len(d) > 6 THEN 1000000 ELSE DecVal(0, d)
  IN IF Negative(x) THEN 0 - v ELSE v

\* the float the text converts to
ReadFloat(s) ==
  LET t == FloatText(s)
      b == Unsigned(t)
      m == UpTo(b, {"e", "E"})
      frac == After(m, {"."})
      v == IF IsNaN(b) THEN NaN
           ELSE IF IsInfinity(b) THEN Inf(FALSE)
           ELSE DecimalToDouble(Digits(UpTo(m, {"."}) \o frac),
                                ExponentOf(After(b, {"e", "E"})) - Len(frac))
  IN IF Negative(t) THEN Neg(v) ELSE v

\* the conversions of the amounts submitted, each worked out once
FloatsTried ==
  [s \in AmountsTried |->
     [ok |-> ReadsAsFloat(s), value |-> IF ReadsAsFloat(s) THEN ReadFloat(s) ELSE NaN]]

\* the conversion to float succeeds
IsFloat(s) == IF s \in AmountsTried THEN FloatsTried[s].ok ELSE ReadsAsFloat(s)

\* amount: float = Form(...)
ParseFloat(s) == IF s \in AmountsTried THEN FloatsTried[s].value ELSE ReadFloat(s)

\* an int literal: a sign, then digits
IsIntLiteral(t) == Unsigned(t) # <<>> /\ AllDigits(Unsigned(t))

\* the text from its first significant digit on: leading zeros, and the
\* underscores among them, go; the last zero stays before a point and when
\* nothing follows; a "-" ends the zeros as a digit does; <<>> for a text that
\* does not start as a number
StripLeadingZeros(s) ==
  LET p == FindOther(s, {"0", "_"}, 2)
  IN IF s = <<>> THEN <<>>
     ELSE IF s[1] # "0"
     THEN (IF IsDigit(s[1]) \/ s[1] = "-" THEN s ELSE <<>>)
     ELSE IF p = 0 THEN <<s[Len(s)]>>
     ELSE IF (IsDigit(s[p]) /\ s[p] # "0") \/ s[p] = "-" THEN SubSeq(s, p, Len(s))
     ELSE IF s[p] = "." THEN SubSeq(s, p - 1, Len(s))
     ELSE <<>>

\* the text before a point followed by zeros, one at least, and nothing else
StripDecimalZeros(s) ==
  LET p == Find(s, {"."}, 1)
  IN IF p # 0 /\ p < Len(s) /\ \A i \in (p + 1)..Len(s) : s[i] = "0"
     THEN SubSeq(s, 1, p - 1)
     ELSE s

\* the trimmed text t cleaned up: the sign aside (a "+" dropped, no second
\* sign after it), leading zeros and a zero fraction off, underscores out;
\* <<>> when it cannot be an int
CleanIntStr(t) ==
  LET plus == t # <<>> /\ Head(t) = "+"
      a == IF plus THEN Tail(t) ELSE t
      minus == a # <<>> /\ Head(a) = "-"
      b == IF minus THEN Tail(a) ELSE a
      z == StripLeadingZeros(b)
      d == StripDecimalZeros(z)
  IN IF (plus /\ minus) \/ (minus /\ b # <<>> /\ Head(b) \in {"+", "-"}) \/ z = <<>>
     THEN <<>>
     ELSE (IF minus THEN <<"-">> ELSE <<>>)
          \o (IF CanStrip(d) THEN StripUnderscores(d) ELSE d)

\* what the cleaned text must be: "-" or nothing, then 0 or digits not
\* starting with 0
IsCleanInt(c) ==
  LET b == IF Negative(c) THEN Tail(c) ELSE c
  IN b # <<>> /\ AllDigits(b) /\ (Len(b) > 1 => b[1] # "0")

\* the text the int is read from: the trimmed text when that is a literal,
\* else the trimmed text cleaned up
IntText(s) ==
  LET t == Trim(s) IN IF IsIntLiteral(t) THEN t ELSE CleanIntStr(t)

DigitChar(d) ==
  CASE d = 0 -> "0" [] d = 1 -> "1" [] d = 2 -> "2" [] d = 3 -> "3"
    [] d = 4 -> "4" [] d = 5 -> "5" [] d = 6 -> "6" [] d = 7 -> "7"
    [] d = 8 -> "8" [] d = 9 -> "9"

\* the ids the page links to
FewPaths == {<<DigitChar(i)>> : i \in 1..MaxCreates}

\* the path segments tried: every id an INSERT can give; 2 written " 0_2.0";
\* -1 written "0-1", never given; 2^63, past SQLite's INTEGER; "abc", "1."
\* and "+_1", no integers
PathIds ==
  FewPaths \cup
  { <<" ", "0", "_", "2", ".", "0">>,
    <<"0", "-", "1">>,
    <<"9", "2", "2", "3", "3", "7", "2", "0", "3", "6", "8", "5", "4", "7", "7",
      "5", "8", "0", "8">>,
    <<"a", "b", "c">>,
    <<"1", ".">>,
    <<"+", "_", "1">> }

\* the ids deleted while threads interleave: those given, 99 never given, and
\* 2^63
ThreadPaths ==
  {<<DigitChar(i)>> : i \in 1..MaxThreadCreates} \cup
  { <<"9", "9">>,
    <<"9", "2", "2", "3", "3", "7", "2", "0", "3", "6", "8", "5", "4", "7", "7",
      "5", "8", "0", "8">> }

\* the path segments requested
PathsTried == PathIds \cup ThreadPaths

\* the text reads as an int: a literal as it is or once cleaned up, the
\* cleaned text (sign "-" included) of no more than 4300 characters
ReadsAsInt(chars) ==
  LET t == Trim(chars)
      c == CleanIntStr(t)
  IN Len(c) <= 4300 /\ (IsIntLiteral(t) \/ IsCleanInt(c))

\* the int the text converts to
ReadInt(chars) ==
  LET t == IntText(chars)
      d == Digits(Unsigned(t))
  IN PyInt(Negative(t) /\ d # <<>>, d)

\* the conversions of the path segments requested, each worked out once
IntsTried ==
  [s \in PathsTried |->
     [ok |-> ReadsAsInt(s),
      value |-> IF ReadsAsInt(s) THEN ReadInt(s) ELSE PyInt(FALSE, <<>>)]]

\* the conversion to int succeeds
IsInt(chars) == IF chars \in PathsTried THEN IntsTried[chars].ok ELSE ReadsAsInt(chars)

\* expense_id: int, from the characters of the path segment
ParseInt(chars) ==
  IF chars \in PathsTried THEN IntsTried[chars].value ELSE ReadInt(chars)


\* title: str = Form("") in place of Form(...): a form without title is
\* accepted
FormValidTitleOptional(form) ==
  /\ {"amount", "category"} \subseteq form.sent
  /\ IsFloat(form.amount)

\* FastAPI answers 422 before the handler runs unless this holds: the three
\* fields are sent, empty or not, and the amount reads as a float
FormValid(form) ==
  /\ form.sent = Fields
  /\ IsFloat(form.amount)

(***************************************************************************)
(* State after the module has been imported: the table exists and is       *)
(* empty, nothing is pending on the connection.                            *)
(***************************************************************************)
Threads == {"t1", "t2"}

\* no form body
NoForm == [Form("", <<>>, "") EXCEPT !.sent = {}]

\* what the latest step answered; op "none" when it answered nothing
Response(op, by, status, form, path, rows, total) ==
  [op |-> op, by |-> by, status |-> status, form |-> form, path |-> path,
   rows |-> rows, total |-> total]

NoResponse == Response("none", "t1", 0, NoForm, <<>>, <<>>, Zero)

Init ==
  /\ disk = [rows |-> {}, seq |-> 0]
  /\ conn = [rows |-> {}, seq |-> 0, inTx |-> FALSE]
  /\ cursor = <<>>
  /\ clock = 0
  /\ pysum \in {"naive", "neumaier"}
  /\ last = NoResponse
  /\ assigned = <<>>
  /\ created = {}
  /\ removed = {}
  /\ pc = [t \in Threads |-> "idle"]
  /\ raced = [t \in Threads |-> FALSE]
  /\ seen = [t \in Threads |-> {}]

\* datetime.now().strftime("%Y-%m-%d")
Today == Strftime(DayAt(clock))

\* total = sum(...) and the context of templates.TemplateResponse: the page,
\* or 500 when sum raises
Render(by, expenses) ==
  IF SumRaises(expenses)
  THEN Response("index", by, 500, NoForm, <<>>, <<>>, Zero)
  ELSE Response("index", by, 200, NoForm, <<>>, expenses, PySum(pysum, expenses))

(***************************************************************************)
(* The handlers, each run from request to response.                        *)
(***************************************************************************)
\* GET /
index ==
  LET expenses == ListAll(conn.rows)
  IN /\ cursor' = <<>>
     /\ last' = Render("t1", expenses)
     /\ UNCHANGED <<disk, conn, clock, pysum, assigned, created, removed, pc,
                    raced, seen>>

\* POST /add
add_expense(form) ==
  IF ~FormValid(form)
  THEN /\ last' = Response("add", "t1", 422, form, <<>>, <<>>, Zero)
       /\ UNCHANGED <<disk, conn, cursor, clock, pysum, assigned, created,
                      removed, pc, raced, seen>>
  ELSE LET c == ExecInsert(conn, form.title, ParseFloat(form.amount),
                           form.category, Today)
       IN /\ Len(assigned) < MaxCreates
          /\ NextRowid(conn) <= MaxCreates
          /\ cursor' = <<>>
          /\ disk' = Commit(c)
          /\ conn' = Ended(c)
          /\ assigned' = Append(assigned, NextRowid(conn))
          /\ created' = created \cup (c.rows \ conn.rows)
          /\ last' = Response("add", "t1", 303, form, <<>>, <<>>, Zero)
          /\ UNCHANGED <<clock, pysum, removed, pc, raced, seen>>

\* GET /delete/{expense_id}
delete_expense(path) ==
  IF ~IsInt(path)
  THEN /\ last' = Response("delete", "t1", 422, NoForm, path, <<>>, Zero)
       /\ UNCHANGED <<disk, conn, cursor, clock, pysum, assigned, created,
                      removed, pc, raced, seen>>
  ELSE IF ~FitsInt64(ParseInt(path))
  THEN \* OverflowError at the bind: no commit, no rollback
       /\ conn' = Begun(conn)
       /\ cursor' = <<>>
       /\ last' = Response("delete", "t1", 500, NoForm, path, <<>>, Zero)
       /\ UNCHANGED <<disk, clock, pysum, assigned, created, removed, pc,
                      raced, seen>>
  ELSE LET c == ExecDelete(conn, ParseInt(path))
       IN /\ cursor' = <<>>
          /\ disk' = Commit(c)
          /\ conn' = Ended(c)
          /\ removed' = removed \cup {i \in Ids(created) : IdInt(i) = ParseInt(path)}
          /\ last' = Response("delete", "t1", 303, NoForm, path, <<>>, Zero)
          /\ UNCHANGED <<clock, pysum, assigned, created, pc, raced, seen>>

\* midnight passes between two requests
Tick ==
  /\ clock < MaxClock
  /\ clock' = clock + 1
  /\ last' = NoResponse
  /\ UNCHANGED <<disk, conn, cursor, pysum, assigned, created, removed, pc,
                 raced, seen>>

Next ==
  \/ index
  \/ \E form \in Forms : add_expense(form)
  \/ \E path \in PathIds : delete_expense(path)
  \/ Tick

Spec == Init /\ [][Next]_vars

(***************************************************************************)
(* Properties of the handlers run one after another.                       *)
(***************************************************************************)
RECURSIVE RealSum(_)
\* the sum of the amounts as a real number, h * 2^53 + l / Unit, nothing rounded
RealSum(rows) ==
  IF rows = {} THEN Zero
  ELSE LET e == CHOOSE a \in rows : TRUE
           rest == RealSum(rows \ {e})
       IN F(e.amount.h + rest.h, e.amount.l + rest.l)

\* the total GET / would show for the table `rows`
TotalOf(rows) == Render("t1", ListAll(rows)).total

\* the path names the id of row e
Names(path, e) == IsInt(path) /\ ParseInt(path) = IdInt(e.id)

\* C1: the total shown by GET / is the sum of amount over exactly the rows now
\* in the table, and 0 when the table is empty.
C1_TotalIsSumOfStoredAmounts ==
  last.op = "index" => (last.status = 200 /\ last.total = RealSum(conn.rows))

\* C2: GET /delete/{id} of a stored id removes exactly that row, keeps every
\* other row as it was, and lowers the listed total by exactly the row's amount.
C2_DeleteRemovesRowAndItsAmount ==
  [][\A e \in conn.rows :
       (last'.op = "delete" /\ Names(last'.path, e))
       => /\ conn'.rows = conn.rows \ {e}
          /\ \A i \in 1..Len(ListAll(conn'.rows)) : ListAll(conn'.rows)[i].id # e.id
          /\ F(TotalOf(conn.rows).h - TotalOf(conn'.rows).h,
               TotalOf(conn.rows).l - TotalOf(conn'.rows).l) = e.amount]_vars

\* C3: GET /delete/{id} of an integer id that is not stored answers 303 and
\* leaves the rows, the file and the total as they were.
C3_DeleteAbsentIdIsNoOp ==
  [][(/\ last'.op = "delete"
      /\ IsInt(last'.path)
      /\ ~\E e \in conn.rows : Names(last'.path, e))
     => /\ last'.status = 303
        /\ conn'.rows = conn.rows
        /\ disk'.rows = disk.rows
        /\ TotalOf(conn'.rows) = TotalOf(conn.rows)]_vars

\* C4: the ids given by successive creates are strictly increasing, hence
\* pairwise distinct, whatever has been deleted in between.
C4_IdsStrictlyIncreasing ==
  \A i \in 1..Len(assigned) : \A j \in 1..Len(assigned) :
    i < j => assigned[i] < assigned[j]

\* a create has just followed the deletion of every earlier row
C4_Witness ==
  /\ last.op = "add"
  /\ last.status = 303
  /\ Len(assigned) >= 2
  /\ Cardinality(conn.rows) = 1
  /\ \A i \in 1..(Len(assigned) - 1) : assigned[i] \in removed

\* the form lacks title, amount or category, or its amount is no number
Incomplete(form) ==
  \/ "title" \notin form.sent
  \/ "amount" \notin form.sent
  \/ "category" \notin form.sent
  \/ ~IsFloat(form.amount)

\* C5: a POST /add with a missing field or an amount that is no number, and a
\* GET /delete/{id} with a non-integer id, answer 422 and change nothing stored.
C5_RejectedRequestChangesNothing ==
  [][(\/ (last'.op = "add" /\ Incomplete(last'.form))
      \/ (last'.op = "delete" /\ ~IsInt(last'.path)))
     => /\ last'.status = 422
        /\ conn' = conn
        /\ disk' = disk
        /\ TotalOf(conn'.rows) = TotalOf(conn.rows)]_vars

C5_Witness ==
  /\ last.op = "add"
  /\ last.form.amount = <<"a", "b", "c">>
  /\ last.status = 422
  /\ conn.rows # {}

\* C6: a successful POST /add adds exactly one row with a new id, carrying the
\* submitted title, amount and category and today's date, keeps the other
\* rows, has it committed when it answers, and answers 303.
C6_AddInsertsOneCommittedRow ==
  [][(last'.op = "add" /\ ~Incomplete(last'.form))
     => /\ last'.status = 303
        /\ \E e \in conn'.rows :
             /\ e.id \notin Ids(conn.rows)
             /\ conn'.rows = conn.rows \cup {e}
             /\ Cardinality(conn'.rows) = Cardinality(conn.rows) + 1
             /\ e.title = last'.form.title
             /\ e.amount = ParseFloat(last'.form.amount)
             /\ e.category = last'.form.category
             /\ e.date = Strftime(DayAt(clock))
        /\ disk'.rows = conn'.rows
        /\ ~conn'.inTx]_vars

\* the listing holds every row of the table once, newest date first
ListsAllByDateDesc(listing, rows) ==
  /\ Len(listing) = Cardinality(rows)
  /\ {listing[i] : i \in 1..Len(listing)} = rows
  /\ \A i \in 1..Len(listing) : \A j \in 1..Len(listing) :
       i < j => TextCmp(listing[i].date, listing[j].date) >= 0

\* C7: GET / lists every stored row exactly once by date descending, and two
\* listings with no write between them are the same sequence.
C7_ListingCompleteSortedStable ==
  /\ [](last.op = "index" => ListsAllByDateDesc(last.rows, conn.rows))
  /\ [][(last.op = "index" /\ last'.op = "index") => last'.rows = last.rows]_vars

\* C10: a stored row is the row as it was inserted, it is stored from its
\* insertion until a delete names its id and never again, and GET / changes
\* nothing stored.
C10_RowsAreCreateOrDeleteOnly ==
  /\ [](/\ conn.rows = {e \in created : e.id \notin removed}
        /\ \A a \in created : \A b \in created : a.id = b.id => a = b)
  /\ [][last'.op = "index" => (conn' = conn /\ disk' = disk)]_vars

C10_Witness ==
  /\ last.op = "index"
  /\ removed # {}
  /\ conn.rows # {}
  /\ \E e \in conn.rows : \E id \in removed : e.id > id

(***************************************************************************)
(* Storage errors.  Neither handler catches an exception or rolls back, so *)
(* a request whose statement or commit raises leaves the shared connection *)
(* as SQLite left it and is answered 500.                                  *)
(***************************************************************************)
\* where the sqlite3.Error is raised and how SQLite leaves the transaction:
\* by the statement, the transaction sqlite3 began staying open (SQLITE_BUSY);
\* by the statement, SQLite rolling back (SQLITE_IOERR, SQLITE_FULL);
\* by the commit, the transaction staying open (SQLITE_BUSY);
\* by the commit, SQLite rolling back (SQLITE_IOERR, SQLITE_FULL)
FaultKinds == {"execute_busy", "execute_rollback", "commit_busy", "commit_rollback"}

\* the connection after SQLite has rolled its transaction back
RolledBack == [rows |-> disk.rows, seq |-> disk.seq, inTx |-> FALSE]

\* a statement finds the file locked only while the connection itself holds
\* no write lock, that is while it has nothing pending
FaultCanHappen(kind) == kind = "execute_busy" => Commit(conn) = disk

\* the connection after statement result c could not be completed
AfterFault(c, kind) ==
  CASE kind = "execute_busy" -> Begun(conn)
    [] kind = "execute_rollback" -> RolledBack
    [] kind = "commit_busy" -> c
    [] kind = "commit_rollback" -> RolledBack

\* POST /add, cursor.execute or conn.commit raising
add_expense_fault(form, kind) ==
  /\ FormValid(form)
  /\ FaultCanHappen(kind)
  /\ NextRowid(conn) <= MaxCreates
  /\ conn' = AfterFault(ExecInsert(conn, form.title, ParseFloat(form.amount),
                                   form.category, Today), kind)
  /\ cursor' = <<>>
  /\ last' = Response("add", "t1", 500, form, <<>>, <<>>, Zero)
  /\ UNCHANGED <<disk, clock, pysum, assigned, created, removed, pc, raced, seen>>

\* GET /delete/{expense_id}, cursor.execute or conn.commit raising
delete_expense_fault(path, kind) ==
  /\ IsInt(path)
  /\ FitsInt64(ParseInt(path))
  /\ FaultCanHappen(kind)
  /\ conn' = AfterFault(ExecDelete(conn, ParseInt(path)), kind)
  /\ cursor' = <<>>
  /\ last' = Response("delete", "t1", 500, NoForm, path, <<>>, Zero)
  /\ UNCHANGED <<disk, clock, pysum, assigned, created, removed, pc, raced, seen>>

NextFault ==
  \/ index
  \/ \E form \in FewForms : add_expense(form)
  \/ \E path \in FewPaths : delete_expense(path)
  \/ \E form \in FewForms : \E kind \in FaultKinds : add_expense_fault(form, kind)
  \/ \E path \in FewPaths : \E kind \in FaultKinds : delete_expense_fault(path, kind)

SpecFault == Init /\ [][NextFault]_vars

\* C8: a create or delete that fails with a storage error applies nothing: the
\* rows later listings see and the file are as before the request, and what a
\* later commit would write is what it would have written before the request.
C8_FailedRequestAppliesNothing ==
  [][last'.status = 500
     => /\ conn'.rows = conn.rows
        /\ disk' = disk
        /\ Commit(conn') = Commit(conn)]_vars

(***************************************************************************)
(* The handlers as the thread pool runs them: `def` routes run on worker   *)
(* threads.  pc[t] names the call on the shared cursor or connection that  *)
(* thread t has reached: t is inside that call or about to enter it, and   *)
(* the action of that name is the call returning.  Two threads in a call   *)
(* at once race on the cursor object and on its statement.                 *)
(***************************************************************************)
\* the tables each GET / in progress has had before it, `rows` added
SeenAlso(rows) ==
  [u \in Threads |-> IF pc[u] = "index_fetchall" THEN seen[u] \cup {rows} ELSE seen[u]]

\* thread u has a call in progress
InCall(u) == pc[u] \notin {"idle", "dead"}

\* another worker thread has a call in progress
Racing(t) == \E u \in Threads \ {t} : InCall(u)

\* thread t leaves its call for the call `to`, or for "idle" with its answer:
\* a call it enters while another is in progress races with that one
Goes(t, to) ==
  /\ pc' = [pc EXCEPT ![t] = to]
  /\ raced' = [u \in Threads |->
                 IF u = t THEN to # "idle" /\ Racing(t)
                 ELSE raced[u] \/ (to # "idle" /\ InCall(u))]

\* the elements of sequence xs at the positions in S, in order
RECURSIVE Pick(_, _, _)
Pick(xs, S, i) ==
  IF i > Len(xs) THEN <<>>
  ELSE (IF i \in S THEN <<xs[i]>> ELSE <<>>) \o Pick(xs, S, i + 1)

\* what a column read gives once the statement has moved on: None
None == "None"

\* row e read while the other thread steps the statement: the columns from
\* the k-th on are None (0 for an id, the empty text for a date)
NoneFrom(e, k) ==
  Row(IF k <= 1 THEN 0 ELSE e.id,
      IF k <= 2 THEN None ELSE e.title,
      IF k <= 3 THEN Null ELSE e.amount,
      IF k <= 4 THEN None ELSE e.category,
      <<>>)

\* the listing xs with its i-th row torn from column k on; whole when i = 0
Torn(xs, i, k) ==
  Pick([j \in 1..Len(xs) |-> IF j = i THEN NoneFrom(xs[j], k) ELSE xs[j]],
       1..Len(xs), 1)

\* a call on the shared cursor that raced with another thread's raises
\* sqlite3.ProgrammingError (recursive use of cursors, wrong number of
\* bindings for the statement the other thread put there): t answers 500;
\* `began` tells whether sqlite3 had begun the transaction before raising
Raised(t, op, began) ==
  /\ raced[t]
  /\ Goes(t, "idle")
  /\ conn' = [rows |-> conn.rows, seq |-> conn.seq, inTx |-> conn.inTx \/ began]
  /\ last' = Response(op, t, 500, NoForm, <<>>, <<>>, Zero)
  /\ UNCHANGED <<disk, cursor, clock, pysum, assigned, created, removed, seen>>

\* two threads inside the unsynchronised cursor object at once: the
\* interpreter is killed by SIGSEGV in the call of t, no request in progress
\* is answered and what was not committed is lost
Crashed(t) ==
  /\ raced[t]
  /\ pc' = [u \in Threads |-> "dead"]
  /\ raced' = [u \in Threads |-> FALSE]
  /\ conn' = RolledBack
  /\ cursor' = <<>>
  /\ last' = Response("crash", t, 0, NoForm, <<>>, <<>>, Zero)
  /\ UNCHANGED <<disk, clock, pysum, assigned, created, removed, seen>>

\* a worker thread takes a request that passed validation and calls the
\* handler, which goes to its first call
enter(t, call) ==
  /\ pc[t] = "idle"
  /\ call = "add_execute"
     => conn.seq + Cardinality({u \in Threads : pc[u] = "add_execute"})
          < MaxThreadCreates
  /\ Goes(t, call)
  /\ last' = NoResponse
  /\ UNCHANGED <<disk, conn, cursor, clock, pysum, assigned, created, removed, seen>>

\* cursor.execute("SELECT * FROM expenses ORDER BY date DESC")
index_execute(t) ==
  /\ pc[t] = "index_execute"
  /\ \/ /\ cursor' = ListAll(conn.rows)
        /\ Goes(t, "index_fetchall")
        /\ seen' = [seen EXCEPT ![t] = {conn.rows}]
        /\ last' = NoResponse
        /\ UNCHANGED <<disk, conn, clock, pysum, assigned, created, removed>>
     \/ Raised(t, "index", FALSE)
     \/ Crashed(t)

\* expenses = cursor.fetchall(); total = sum(...); return the page
index_fetchall(t) ==
  /\ pc[t] = "index_fetchall"
  /\ \/ /\ cursor' = <<>>
        /\ Goes(t, "idle")
        /\ last' = Render(t, cursor)
        /\ UNCHANGED <<disk, conn, clock, pysum, assigned, created, removed, seen>>
     \/ \* the other thread steps the same statement while this one fetches:
        \* this one gets some of the rows, one of them perhaps torn, and
        \* leaves some of them
        /\ raced[t]
        /\ \E S \in SUBSET (1..Len(cursor)) : \E left \in SUBSET (1..Len(cursor)) :
             \E i \in 0..Cardinality(S) : \E k \in 1..5 :
               /\ cursor' = Pick(cursor, left, 1)
               /\ last' = Render(t, Torn(Pick(cursor, S, 1), i, k))
        /\ Goes(t, "idle")
        /\ UNCHANGED <<disk, conn, clock, pysum, assigned, created, removed, seen>>
     \/ Raised(t, "index", FALSE)
     \/ Crashed(t)

\* cursor.execute("INSERT INTO expenses ...")
add_execute(t, form) ==
  LET c == ExecInsert(conn, form.title, ParseFloat(form.amount), form.category, Today)
  IN /\ pc[t] = "add_execute"
     /\ FormValid(form)
     /\ \/ /\ conn' = c
           /\ cursor' = <<>>
           /\ Goes(t, "add_commit")
           /\ seen' = SeenAlso(c.rows)
           /\ assigned' = Append(assigned, NextRowid(conn))
           /\ created' = created \cup (c.rows \ conn.rows)
           /\ last' = NoResponse
           /\ UNCHANGED <<disk, clock, pysum, removed>>
        \/ \E began \in BOOLEAN : Raised(t, "add", began)
        \/ Crashed(t)

\* conn.commit(); return RedirectResponse("/", status_code=303)
add_commit(t) ==
  /\ pc[t] = "add_commit"
  /\ Goes(t, "idle")
  /\ \/ /\ disk' = Commit(conn)
        /\ conn' = Ended(conn)
        /\ last' = Response("add", t, 303, NoForm, <<>>, <<>>, Zero)
     \/ \* the other thread's commit ended the transaction under this one:
        \* "cannot commit - no transaction is active"
        /\ ~conn.inTx
        /\ UNCHANGED <<disk, conn>>
        /\ last' = Response("add", t, 500, NoForm, <<>>, <<>>, Zero)
  /\ UNCHANGED <<cursor, clock, pysum, assigned, created, removed, seen>>

\* cursor.execute("DELETE FROM expenses WHERE id = ?", (expense_id,))
delete_execute(t, path) ==
  LET c == ExecDelete(conn, ParseInt(path))
  IN /\ pc[t] = "delete_execute"
     /\ IsInt(path)
     /\ \/ /\ FitsInt64(ParseInt(path))
           /\ conn' = c
           /\ cursor' = <<>>
           /\ Goes(t, "delete_commit")
           /\ seen' = SeenAlso(c.rows)
           /\ removed' = removed \cup {i \in Ids(created) : IdInt(i) = ParseInt(path)}
           /\ last' = NoResponse
           /\ UNCHANGED <<disk, clock, pysum, assigned, created>>
        \/ \* OverflowError at the bind, the statement of the cursor dropped
           /\ ~FitsInt64(ParseInt(path))
           /\ conn' = Begun(conn)
           /\ cursor' = <<>>
           /\ Goes(t, "idle")
           /\ last' = Response("delete", t, 500, NoForm, path, <<>>, Zero)
           /\ UNCHANGED <<disk, clock, pysum, assigned, created, removed, seen>>
        \/ \E began \in BOOLEAN : Raised(t, "delete", began)
        \/ Crashed(t)

\* conn.commit(); return RedirectResponse("/", status_code=303)
delete_commit(t) ==
  /\ pc[t] = "delete_commit"
  /\ Goes(t, "idle")
  /\ \/ /\ disk' = Commit(conn)
        /\ conn' = Ended(conn)
        /\ last' = Response("delete", t, 303, NoForm, <<>>, <<>>, Zero)
     \/ /\ ~conn.inTx
        /\ UNCHANGED <<disk, conn>>
        /\ last' = Response("delete", t, 500, NoForm, <<>>, <<>>, Zero)
  /\ UNCHANGED <<cursor, clock, pysum, assigned, created, removed, seen>>

NextThreads ==
  \E t \in Threads :
    \/ \E call \in {"index_execute", "add_execute", "delete_execute"} : enter(t, call)
    \/ index_execute(t)
    \/ index_fetchall(t)
    \/ \E form \in FewForms : add_execute(t, form)
    \/ add_commit(t)
    \/ \E path \in ThreadPaths : delete_execute(t, path)
    \/ delete_commit(t)

SpecThreads == Init /\ [][NextThreads]_vars

\* C9: a GET / that runs while other requests run renders the complete listing
\* of one table the connection showed between its execute and its fetchall,
\* with the total of those same rows; never an empty or cut listing while rows
\* were stored throughout.
C9_ConcurrentListingIsOneSnapshot ==
  last.op = "index"
  => /\ \E rows \in seen[last.by] : last.rows = ListAll(rows)
     /\ last.total = PySum(pysum, last.rows)

====
